---- MODULE Spec2Model ----
(***************************************************************************)
(* Coastal Hazard Wheel classification service (openearth/chw3.0-wps).     *)
(*                                                                         *)
(* One classification request is modelled from the moment a handler        *)
(* (WpsChw20._handler or WpsCoastalHazardWheelTest._handler) starts until  *)
(* it has left its payload in response.outputs["output_json"].  The CHW    *)
(* object of the request is the record chw; each method of CHW is an       *)
(* operator from the object and the results of the external lookups it     *)
(* performs to the changed object and the exception it raises, if any.     *)
(*                                                                         *)
(* Functions of the helper modules (database, raster, vector and output   *)
(* helpers) are collaborators of CHW and of the handlers: a call returns a *)
(* result of the kind its callers expect, or raises.  The helper revisions *)
(* under processes/ are not the ones both CHW classes were written against *)
(* (cut_wcs takes no username, DB has no get_land_polygon, write_output    *)
(* reads attributes chw_utils.CHW does not assign), so what a call does is *)
(* taken from its call site.                                               *)
(*                                                                         *)
(* Encodings:                                                              *)
(*   - slopes are kept in tenths of a percent (round(slope, 1) * 10), so   *)
(*     2.3 is 23 and the comparison with a cutoff is exact;                *)
(*   - Python None is the value PyNone, an attribute that was never        *)
(*     assigned is Unset, and the string "None" is the code's sentinel;    *)
(*   - the integer severities 1..4 of the decision table are the strings   *)
(*     "1".."4" (they share a field with the sentinel "None");             *)
(*   - an external lookup that the code does not guard is named in the     *)
(*     field abort of the lookup results when it raises; a guarded lookup  *)
(*     carries its failure in its own result;                              *)
(*   - properties of the input transect (coastline_id, latitude) are       *)
(*     drawn where the code reads them: each is read once per request.     *)
(***************************************************************************)
EXTENDS Integers, Sequences, FiniteSets, TLC

----------------------------------------------------------------------------
(* Bounds of the model *)

\* number of distinct coastline segment ids (gid of coast.osm_segment1000m)
MaxCoastId == 2
\* slopes sampled at each cutoff c: c, c+1, ..., c+SlopeMargin (and 0)
SlopeMargin == 1
\* largest number of land-cover pixels counted in one category
MaxPixels == 1
\* largest number of samples of an elevation profile
MaxSamples == 4
\* largest elevation of a sample, in metres (the smallest is 0)
MaxElevation == 2

----------------------------------------------------------------------------
(* Program constants *)

\* chw_utils_test_environment.py: module-level cut-off values
cov_slope_hr == 23
cov_slope_bd == 35
cov_slope_veg == 590
cov_elev_ci == 14
\* chw_utils.py: the same cut-offs, written as literals in the methods
prod_slope_hr == 30
prod_slope_bd == 40
prod_slope_veg == 300
prod_elev_ci == 2

PyNone == "<NoneType>"
Unset == "<unset>"
NoExc == "<no exception>"

Handlers == {"WpsChw20", "WpsCoastalHazardWheelTest"}

\* WpsChw20 imports chw_utils.CHW, the test handler chw_utils_test_environment.CHW
Variant(h) == IF h = "WpsChw20" THEN "production" ELSE "testing"

SlopeHr(v) == IF v = "testing" THEN cov_slope_hr ELSE prod_slope_hr
SlopeBd(v) == IF v = "testing" THEN cov_slope_bd ELSE prod_slope_bd
SlopeVeg(v) == IF v = "testing" THEN cov_slope_veg ELSE prod_slope_veg
ElevCi(v) == IF v = "testing" THEN cov_elev_ci ELSE prod_elev_ci

\* Messages
NoElevationMsg == "There are no elevation data in the area, please try another location"
LookupErrorMsg == "external lookup failed"
NameErrorMsg == "name is not defined"

----------------------------------------------------------------------------
(* Values returned by the external collaborators *)

\* round(mean_slope, 1) in tenths of a percent, around the cut-offs
Slopes(v) ==
    {0} \cup {SlopeHr(v) + d : d \in 0..SlopeMargin}
        \cup {SlopeBd(v) + d : d \in 0..SlopeMargin}

\* geollayout: 'fluvisol' and GLiM classes; "NULL" is a query without a row value
GeologyResults == {"Fail", "NULL", "fluvisol", "ev"}

CoastIds == 1..MaxCoastId

----------------------------------------------------------------------------
(* The CHW object *)

\* measure lists: the default of provide_measures; <<>> is the unassigned attribute
NoMeasures == <<"No measures were found">>

\* CHW.__init__: the attributes before any lookup (the six default axes);
\* attributes assigned later are Unset until then
NewCHW(v) ==
    [ variant |-> v,
      geological_layout |-> "Any",
      wave_exposure |-> "Any",
      tidal_range |-> "any",
      flora_fauna |-> "Any",
      sediment_balance |-> "Balance/Deficit",
      storm_climate |-> "Any",
      slope |-> 0,
      elevations |-> Unset,
      geology |-> Unset,
      corals |-> FALSE,
      geology_material |-> Unset,
      code |-> Unset,
      ecosystem_disruption |-> Unset,
      gradual_inundation |-> Unset,
      salt_water_intrusion |-> Unset,
      erosion |-> Unset,
      flooding |-> Unset,
      ecosystem_disruption_measures |-> <<>>,
      gradual_inundation_measures |-> <<>>,
      salt_water_intrusion_measures |-> <<>>,
      erosion_measures |-> <<>>,
      flooding_measures |-> <<>>,
      gar |-> Unset,
      population |-> Unset ]

Result(e, o) == [exc |-> e, obj |-> o]

\* Lookups of the constructor, in the order the code performs them:
\*   abort   the unguarded call that raises: ST_line_extend (DB connection,
\*           transect family) or intersect_with_corals; "none" otherwise
\*   dem     the guarded block cut_wcs / get_elevation_profile / calc_slope:
\*           "ok", "fetch_fail" (no profile) or "slope_fail" (profile, no slope)
\*   slope   round(mean slope, 1) when dem = "ok"
\*   geology get_geology_value: a class, "NULL" or "Fail"
\*   corals_6km, corals_4km_inland   intersect_with_corals on the two transects
InitLookups(v) ==
    { w \in [ op : {"__init__"},
              abort : {"none", "ST_line_extend", "intersect_with_corals"},
              dem : {"ok", "fetch_fail", "slope_fail"},
              slope : Slopes(v),
              geology : GeologyResults,
              corals_6km : BOOLEAN,
              corals_4km_inland : BOOLEAN ] :
        \* results the constructor never gets to are left at a fixed value
        /\ (w.dem # "ok" => w.slope = 0)
        /\ (v = "production" => w.corals_4km_inland = FALSE)
        /\ (\/ w.abort = "ST_line_extend"
            \/ (v = "testing" /\ w.dem # "ok")
              => /\ w.geology = "NULL"
                 /\ w.corals_6km = FALSE
                 /\ w.corals_4km_inland = FALSE
                 /\ w.abort # "intersect_with_corals")
        /\ (w.abort = "ST_line_extend" => w.dem = "ok" /\ w.slope = 0)
        /\ (w.abort = "intersect_with_corals"
              => w.corals_6km = FALSE /\ w.corals_4km_inland = FALSE) }

\* GeologyMaterial that takes a missing geology for loose material
GeologyMaterial_none_soft(geology) ==
    IF geology \in {"su", "fluvisol", "wb", PyNone} THEN "unconsolidated" ELSE "consolidated"

\* self.geology_material
GeologyMaterial(geology) ==
    IF geology \in {"su", "fluvisol", "wb"} THEN "unconsolidated" ELSE "consolidated"

\* InitSlope with the except branch of chw_utils.CHW in both classes
InitSlope_failsoft(v, w, o) ==
    IF w.dem = "ok"
    THEN Result(NoExc, [o EXCEPT !.elevations = "profile", !.slope = w.slope])
    ELSE Result(NoExc,
                [o EXCEPT !.elevations = IF w.dem = "slope_fail" THEN "profile" ELSE Unset,
                          !.slope = 0])

\* InitSlope when a failed elevation block is fatal in both variants
InitSlope_strict(v, w, o) ==
    IF w.dem = "ok"
    THEN Result(NoExc, [o EXCEPT !.elevations = "profile", !.slope = w.slope])
    ELSE Result(NoElevationMsg, o)

\* InitSlope whose except branch takes the steepest slope instead of 0.00
InitSlope_steep(v, w, o) ==
    IF w.dem = "ok"
    THEN Result(NoExc, [o EXCEPT !.elevations = "profile", !.slope = w.slope])
    ELSE IF v = "testing"
    THEN Result(NoElevationMsg, o)
    ELSE Result(NoExc,
                [o EXCEPT !.elevations = IF w.dem = "slope_fail" THEN "profile" ELSE Unset,
                          !.slope = SlopeBd(v) + SlopeMargin])

\* the try block around the elevation profile and the slope
InitSlope(v, w, o) ==
    IF w.dem = "ok"
    THEN Result(NoExc, [o EXCEPT !.elevations = "profile", !.slope = w.slope])
    ELSE IF v = "testing"
    THEN Result(NoElevationMsg, o)
    ELSE Result(NoExc,
                [o EXCEPT !.elevations = IF w.dem = "slope_fail" THEN "profile" ELSE Unset,
                          !.slope = 0])

\* InitGeology when a failed elevation block also drops the geology
InitGeology_demfail(w, o) ==
    [o EXCEPT !.geology = IF w.geology \in {"Fail", "NULL"} \/ w.dem # "ok"
                          THEN PyNone ELSE w.geology]

\* the try block around get_geology_value
InitGeology(w, o) ==
    [o EXCEPT !.geology = IF w.geology \in {"Fail", "NULL"} THEN PyNone ELSE w.geology]

\* self.corals
InitCorals(v, w) ==
    IF v = "testing" THEN w.corals_6km \/ w.corals_4km_inland ELSE w.corals_6km

\* CHW.__init__(transect)
CHW_init(v, w) ==
    IF w.abort = "ST_line_extend"
    THEN Result(LookupErrorMsg, NewCHW(v))
    ELSE LET s == InitSlope(v, w, NewCHW(v)) IN
         IF s.exc # NoExc
         THEN s
         ELSE LET g == InitGeology(w, s.obj) IN
              IF w.abort = "intersect_with_corals"
              THEN Result(LookupErrorMsg, g)
              ELSE Result(NoExc,
                          [g EXCEPT !.corals = InitCorals(v, w),
                                    !.geology_material = GeologyMaterial(g.geology)])

----------------------------------------------------------------------------
(* Stage 1: geological layout *)

RiverMouth(v) == IF v = "testing" THEN "River mouth" ELSE "Tidal inlet/sand spit/river mouth"

\* the unguarded lookups of stage 1 in the order the code reaches them
GeoOrder ==
    <<"small_estuaries_wkt", "small_estuaries_100m", "small_island", "land_polygon",
      "barriers_sandspits", "estuaries_100m", "estuaries_wkt">>

GeoPos(name) == CHOOSE i \in 1..Len(GeoOrder) : GeoOrder[i] = name

\* TRUE iff the lookup called name is cut off by the lookup that raises
CutOff(w, name) == w.abort # "none" /\ GeoPos(w.abort) <= GeoPos(name)

\* median island elevations sampled around the coral-island cut-off
Medians(v) == {ElevCi(v) - 1, ElevCi(v)}

\* (small estuary on the transect or on its 100 m extension) and slope <= cut-off
RiverMouthRule(o, w) ==
    (w.small_estuaries_wkt \/ w.small_estuaries_100m) /\ o.slope <= SlopeBd(o.variant)

\* MedianElevation when a failed island DEM rules the coral island out
MedianElevation_unknown(w) == IF w.island_dem = "Fail" THEN cov_elev_ci ELSE w.median

\* self.median_elevation: 0 when the island DEM cannot be fetched or read
MedianElevation(w) == IF w.island_dem = "Fail" THEN 0 ELSE w.median

\* CHW.check_coral_islands
check_coral_islands(o, w) ==
    IF o.variant = "testing"
    THEN w.small_island /\ (o.corals = TRUE /\ MedianElevation(w) < cov_elev_ci)
    ELSE w.small_island /\ o.corals = TRUE /\ MedianElevation(w) < prod_elev_ci

\* special_case_flat_hard_rock that also asks for consolidated material
special_case_flat_hard_rock_geology(o) ==
    o.corals /\ o.slope < SlopeHr(o.variant) /\ o.geology_material = "consolidated"

\* CHW.special_case_flat_hard_rock
special_case_flat_hard_rock(o) == o.corals /\ o.slope < SlopeHr(o.variant)

\* special_case_sloping_hard_rock with slope > cut-off
special_case_sloping_hard_rock_above(o) == o.corals /\ o.slope > SlopeHr(o.variant)

\* CHW.special_case_sloping_hard_rock
special_case_sloping_hard_rock(o) == o.corals /\ o.slope >= SlopeHr(o.variant)

BarrierRule(o, w) ==
    /\ w.barriers_sandspits = TRUE
    /\ o.geology_material = "unconsolidated"
    /\ o.slope <= SlopeBd(o.variant)

DeltaRule(o, w) ==
    /\ (w.estuaries_100m \/ w.estuaries_wkt)
    /\ o.geology_material = "unconsolidated"
    /\ o.slope <= SlopeBd(o.variant)

\* CHW.check_geology_type
check_geology_type(o) ==
    IF o.geology_material = "unconsolidated" /\ o.slope <= SlopeHr(o.variant)
    THEN "Sediment plain"
    ELSE IF o.geology_material = "unconsolidated" /\ o.slope > SlopeHr(o.variant)
    THEN "Sloping soft rock"
    ELSE IF o.geology_material = "consolidated" /\ o.slope <= SlopeHr(o.variant)
    THEN "Flat hard rock"
    ELSE "Sloping hard rock"

\* CHW.special_case_hard_rock
special_case_hard_rock(o) ==
    IF o.slope <= SlopeHr(o.variant) THEN "Flat hard rock" ELSE "Sloping hard rock"

\* the chain with the two coral special cases tested before the coral island
GeologicalLayout_special_cases_first(o, w) ==
    IF RiverMouthRule(o, w) THEN RiverMouth(o.variant)
    ELSE IF special_case_flat_hard_rock(o) = TRUE THEN "Flat hard rock"
    ELSE IF special_case_sloping_hard_rock(o) = TRUE THEN "Sloping hard rock"
    ELSE IF check_coral_islands(o, w) = TRUE THEN "Coral island"
    ELSE IF BarrierRule(o, w) THEN "Barrier"
    ELSE IF DeltaRule(o, w) THEN "Delta/ low estuary island"
    ELSE IF o.geology # PyNone THEN check_geology_type(o)
    ELSE special_case_hard_rock(o)

\* the if / elif chain of get_info_geological_layout
GeologicalLayout(o, w) ==
    IF RiverMouthRule(o, w) THEN RiverMouth(o.variant)
    ELSE IF check_coral_islands(o, w) = TRUE THEN "Coral island"
    ELSE IF special_case_flat_hard_rock(o) = TRUE THEN "Flat hard rock"
    ELSE IF special_case_sloping_hard_rock(o) = TRUE THEN "Sloping hard rock"
    ELSE IF BarrierRule(o, w) THEN "Barrier"
    ELSE IF DeltaRule(o, w) THEN "Delta/ low estuary island"
    ELSE IF o.geology # PyNone THEN check_geology_type(o)
    ELSE special_case_hard_rock(o)

\* TRUE iff the code evaluates the lookup called name (short-circuit of
\* "or" / "and" and of the elif chain)
GeoEvaluated(o, w, name) ==
    LET coralTest == ~RiverMouthRule(o, w)
        pastCorals == coralTest /\ ~check_coral_islands(o, w) /\ ~o.corals
    IN CASE name = "small_estuaries_wkt" -> TRUE
         [] name = "small_estuaries_100m" -> ~w.small_estuaries_wkt
         [] name = "small_island" -> coralTest
         [] name = "land_polygon" -> o.variant = "testing" /\ coralTest /\ w.small_island
         [] name = "island_dem" ->
                coralTest /\ (o.variant = "testing" => w.small_island)
         [] name = "barriers_sandspits" -> pastCorals
         [] name = "estuaries_100m" -> pastCorals /\ ~BarrierRule(o, w)
         [] name = "estuaries_wkt" ->
                pastCorals /\ ~BarrierRule(o, w) /\ ~w.estuaries_100m

\* Lookups of stage 1: the truth of every predicate on the thematic layers
\* (whether or not the code gets to ask for it), the island DEM, and the
\* unguarded lookup that raises, if any
GeoLookups(o) ==
    { w \in [ op : {"get_info_geological_layout"},
              abort : {"none"} \cup {GeoOrder[i] : i \in 1..Len(GeoOrder)},
              small_estuaries_wkt : BOOLEAN,
              small_estuaries_100m : BOOLEAN,
              small_island : BOOLEAN,
              island_dem : {"ok", "Fail"},
              median : Medians(o.variant),
              barriers_sandspits : BOOLEAN,
              estuaries_100m : BOOLEAN,
              estuaries_wkt : BOOLEAN ] :
        \* what lies behind the lookup that raises is left at a fixed value
        /\ \A name \in {"small_estuaries_wkt", "small_estuaries_100m", "small_island",
                        "barriers_sandspits", "estuaries_100m", "estuaries_wkt"} :
              CutOff(w, name) => w[name] = FALSE
        /\ (CutOff(w, "land_polygon") \/ w.island_dem = "Fail"
              => w.median = ElevCi(o.variant) - 1)
        /\ (CutOff(w, "land_polygon") => w.island_dem = "ok")
        \* a lookup can raise, or a guarded one fail, only where the code performs it
        /\ (w.abort # "none" => GeoEvaluated(o, [w EXCEPT !.abort = "none"], w.abort))
        /\ (w.island_dem = "Fail" => GeoEvaluated(o, w, "island_dem")) }

\* get_info_geological_layout when corals found by stage 4 make a coral island
get_info_geological_layout_after_flora(o, w) ==
    IF w.abort # "none"
    THEN Result(LookupErrorMsg, o)
    ELSE Result(NoExc, [o EXCEPT !.geological_layout =
                            IF o.flora_fauna = "Corals"
                            THEN "Coral island" ELSE GeologicalLayout(o, w)])

\* get_info_geological_layout that on a coral island also sets the flora to corals
get_info_geological_layout_and_flora(o, w) ==
    IF w.abort # "none"
    THEN Result(LookupErrorMsg, o)
    ELSE Result(NoExc,
                [o EXCEPT !.geological_layout = GeologicalLayout(o, w),
                          !.flora_fauna = IF GeologicalLayout(o, w) = "Coral island"
                                          THEN "Corals" ELSE @])

\* CHW.get_info_geological_layout
get_info_geological_layout(o, w) ==
    IF w.abort # "none"
    THEN Result(LookupErrorMsg, o)
    ELSE Result(NoExc, [o EXCEPT !.geological_layout = GeologicalLayout(o, w)])

----------------------------------------------------------------------------
(* Stage 2: wave exposure *)

\* ocean.wave_exposure.ts_exposure, or "Fail" when the lookup raises
WaveResults == {"exposed", "moderately exposed", "protected", "Fail"}

\* AddCoast without the append
AddCoast_never(coasts, coastline_id) == coasts

\* closest_coasts.append(coastline_id) unless coastline_id is in the list.
\* fetch_closest_coasts returns one gid per intersected segment; the list is
\* only tested for membership and measured, so it is kept as the set of gids
AddCoast(coasts, coastline_id) ==
    IF coastline_id \notin coasts THEN coasts \cup {coastline_id} ELSE coasts

\* the base value: get_wave_exposure_value or the default of the except branch
BaseWaveExposure(w) == IF w.wave = "Fail" THEN "moderately exposed" ELSE w.wave

\* DeEscalate with the second if of the exposed branch written as elif
DeEscalate_elif(base, closest_coasts_10km, closest_coasts_100km) ==
    IF base = "moderately exposed"
    THEN IF Cardinality(closest_coasts_10km) > 1 THEN "protected" ELSE base
    ELSE IF base = "exposed"
    THEN IF Cardinality(closest_coasts_100km) > 1 THEN "moderately exposed"
         ELSE IF Cardinality(closest_coasts_10km) > 1 THEN "protected"
         ELSE base
    ELSE base

\* DeEscalate with the 100 km test outside the exposed branch
DeEscalate_100km_unnested(base, closest_coasts_10km, closest_coasts_100km) ==
    IF base = "moderately exposed"
    THEN IF Cardinality(closest_coasts_10km) > 1 THEN "protected" ELSE base
    ELSE LET first == IF Cardinality(closest_coasts_100km) > 1
                      THEN "moderately exposed" ELSE base
         IN IF base = "exposed" /\ Cardinality(closest_coasts_10km) > 1
            THEN "protected" ELSE first

\* the two if blocks after the base lookup
DeEscalate(base, closest_coasts_10km, closest_coasts_100km) ==
    IF base = "moderately exposed"
    THEN IF Cardinality(closest_coasts_10km) > 1 THEN "protected" ELSE base
    ELSE IF base = "exposed"
    THEN LET first == IF Cardinality(closest_coasts_100km) > 1
                      THEN "moderately exposed" ELSE base
         IN IF Cardinality(closest_coasts_10km) > 1 THEN "protected" ELSE first
    ELSE base

\* Lookups of stage 2
WaveLookups ==
    { w \in [ op : {"get_info_wave_exposure"},
              abort : {"none", "closest_coasts_10km", "closest_coasts_100km"},
              coastline_id : CoastIds,
              closest_10km : SUBSET CoastIds,
              closest_100km : SUBSET CoastIds,
              wave : WaveResults ] :
        /\ (w.abort # "none" => w.wave = "exposed" /\ w.closest_100km = {})
        /\ (w.abort = "closest_coasts_10km" => w.closest_10km = {}) }

\* CHW.get_info_wave_exposure
get_info_wave_exposure(o, w) ==
    IF w.abort # "none"
    THEN Result(LookupErrorMsg, o)
    ELSE Result(NoExc,
                [o EXCEPT !.wave_exposure =
                    DeEscalate(BaseWaveExposure(w),
                               AddCoast(w.closest_10km, w.coastline_id),
                               AddCoast(w.closest_100km, w.coastline_id))])

----------------------------------------------------------------------------
(* Stage 3: tidal range *)

TidalLookups == [ op : {"get_info_tidal_range"}, tidal : {"micro", "meso", "macro", "Fail"} ]

\* CHW.get_info_tidal_range
get_info_tidal_range(o, w) ==
    Result(NoExc, [o EXCEPT !.tidal_range = IF w.tidal = "Fail" THEN "micro" ELSE w.tidal])

----------------------------------------------------------------------------
(* Stage 4: flora / fauna *)

AttributeErrorMsg == "object has no attribute"

\* latitude of the first point of the transect, around the band [-25, 25]
LatSamples == {-26, -25, 0, 25, 26}

\* slope of the first 200 m around the vegetation cut-off
InlandSlopes(v) == {SlopeVeg(v) - 1, SlopeVeg(v)}

\* Vegetation that asks for strictly more pixels in category_b
Vegetation_strict(v, slope, globcover_category_a, globcover_category_b) ==
    IF slope < SlopeVeg(v) /\ globcover_category_b > globcover_category_a
    THEN "Vegetated"
    ELSE "Not vegetated"

\* the decision of get_vegetation: slope is calc_slope_200m_inland, category_a
\* counts the pixels 150, 190, 200 and 220, category_b all the others
Vegetation(v, slope, globcover_category_a, globcover_category_b) ==
    IF slope < SlopeVeg(v) /\ globcover_category_b >= globcover_category_a
    THEN "Vegetated"
    ELSE "Not vegetated"

\* MangrovePair that takes the default "any" for a micro tidal range
MangrovePair_any(o) ==
    IF o.tidal_range \in {"micro", "any"}
    THEN "Intermittent mangrove" ELSE "Mangrove/tidal flat"

\* intermittent / tidal flat pair on tidal_range
MarshPair(o) == IF o.tidal_range = "micro" THEN "Intermittent marsh" ELSE "Marsh/tidal flat"
MangrovePair(o) ==
    IF o.tidal_range = "micro" THEN "Intermittent mangrove" ELSE "Mangrove/tidal flat"

\* FloraFauna with the hard-rock branch tested before the special case "No"
FloraFauna_corals_first(o, w) ==
    IF o.geological_layout = "Sloping soft rock"
    THEN Vegetation(o.variant, w.slope_inland, w.category_a, w.category_b)
    ELSE IF o.geological_layout \in {"Sloping hard rock", "Flat hard rock", "Coral island"}
    THEN IF o.corals THEN "Corals"
         ELSE IF w.mangroves \/ w.saltmarshes THEN "Marsh/mangrove"
         ELSE IF o.geological_layout = "Flat hard rock" /\ o.wave_exposure = "protected"
         THEN "No"
         ELSE o.flora_fauna
    ELSE IF w.saltmarshes THEN MarshPair(o)
    ELSE IF w.mangroves THEN MangrovePair(o)
    ELSE IF w.lat >= -25 /\ w.lat <= 25 THEN MangrovePair(o)
    ELSE MarshPair(o)

\* FloraFauna with mangroves and saltmarshes tested before the corals
FloraFauna_marsh_first(o, w) ==
    IF o.geological_layout = "Sloping soft rock"
    THEN Vegetation(o.variant, w.slope_inland, w.category_a, w.category_b)
    ELSE IF /\ o.geological_layout = "Flat hard rock"
            /\ o.wave_exposure = "protected"
            /\ w.mangroves = FALSE
            /\ w.saltmarshes = FALSE
    THEN "No"
    ELSE IF o.geological_layout \in {"Sloping hard rock", "Flat hard rock", "Coral island"}
    THEN IF w.mangroves \/ w.saltmarshes THEN "Marsh/mangrove"
         ELSE IF o.corals THEN "Corals"
         ELSE o.flora_fauna
    ELSE IF w.saltmarshes THEN MarshPair(o)
    ELSE IF w.mangroves THEN MangrovePair(o)
    ELSE IF w.lat >= -25 /\ w.lat <= 25 THEN MangrovePair(o)
    ELSE MarshPair(o)

\* the if / elif chain of get_info_flora_fauna, get_vegetation aside
FloraFauna(o, w) ==
    IF o.geological_layout = "Sloping soft rock"
    THEN Vegetation(o.variant, w.slope_inland, w.category_a, w.category_b)
    ELSE IF /\ o.geological_layout = "Flat hard rock"
            /\ o.wave_exposure = "protected"
            /\ w.mangroves = FALSE
            /\ w.saltmarshes = FALSE
    THEN "No"
    ELSE IF o.geological_layout \in {"Sloping hard rock", "Flat hard rock", "Coral island"}
    THEN IF o.corals THEN "Corals"
         ELSE IF w.mangroves \/ w.saltmarshes THEN "Marsh/mangrove"
         ELSE o.flora_fauna
    ELSE IF w.saltmarshes THEN MarshPair(o)
    ELSE IF w.mangroves THEN MangrovePair(o)
    ELSE IF w.lat >= -25 /\ w.lat <= 25 THEN MangrovePair(o)
    ELSE MarshPair(o)

\* TRUE iff stage 4 reads the latitude of the transect
ReadsLat(o, w) ==
    /\ o.geological_layout \notin
          {"Sloping soft rock", "Sloping hard rock", "Flat hard rock", "Coral island"}
    /\ ~w.saltmarshes
    /\ ~w.mangroves

\* Lookups of stage 4
FloraLookups(o) ==
    { w \in [ op : {"get_info_flora_fauna"},
              abort : {"none", "mangroves", "saltmarshes", "landuse"},
              mangroves : BOOLEAN,
              saltmarshes : BOOLEAN,
              lat : LatSamples,
              slope_inland : InlandSlopes(o.variant),
              category_a : 0..MaxPixels,
              category_b : 0..MaxPixels ] :
        /\ (w.abort \in {"mangroves", "saltmarshes"} => ~w.mangroves /\ ~w.saltmarshes)
        /\ (w.abort = "landuse" =>
                o.geological_layout = "Sloping soft rock" /\ o.elevations # Unset)
        /\ (w.abort # "none" \/ ~ReadsLat(o, w) => w.lat = 0)
        /\ (w.abort # "none" \/ o.geological_layout # "Sloping soft rock"
                             \/ o.elevations = Unset
              => /\ w.slope_inland = SlopeVeg(o.variant) - 1
                 /\ w.category_a = 0
                 /\ w.category_b = 0) }

\* CHW.get_vegetation: reads self.elevations and self.segments, then the
\* land-cover raster (cut_wcs, read_raster_values), none of them guarded
get_vegetation(o, w) ==
    IF o.elevations = Unset THEN AttributeErrorMsg
    ELSE IF w.abort = "landuse" THEN LookupErrorMsg
    ELSE NoExc

\* CHW.get_info_flora_fauna
get_info_flora_fauna(o, w) ==
    IF w.abort \in {"mangroves", "saltmarshes"}
    THEN Result(LookupErrorMsg, o)
    ELSE IF o.geological_layout = "Sloping soft rock" /\ get_vegetation(o, w) # NoExc
    THEN Result(get_vegetation(o, w), o)
    ELSE Result(NoExc, [o EXCEPT !.flora_fauna = FloraFauna(o, w)])

----------------------------------------------------------------------------
(* Stage 5: sediment balance *)

\* sediment change rate cut-off 0.5, in tenths
SedimentRateCutoff == 5

\* HardRock with the coral island counted in
HardRock_and_coral_island == {"Flat hard rock", "Sloping hard rock", "Coral island"}

\* the layouts whose sediment balance is the presence of a beach
HardRock == {"Flat hard rock", "Sloping hard rock"}

\* Lookups of stage 5.  beach_fail names the beach lookup that raises;
\* shoreline is coast.shorelinechange.change, PyNone when the query fails or
\* has no row; rate_found is FALSE when get_sediment_changerate_values
\* returns None, rate is the change rate in tenths otherwise
SedimentLookups(o) ==
    { w \in [ op : {"get_info_sediment_balance"},
              beach_fail : {"none", "wkt", "200m"},
              beaches_wkt : BOOLEAN,
              beaches_200m : BOOLEAN,
              shoreline : {"Low", "Medium", PyNone},
              rate_found : BOOLEAN,
              rate : {SedimentRateCutoff, SedimentRateCutoff + 1} ] :
        /\ (o.geological_layout \notin HardRock
              => w.beach_fail = "none" /\ ~w.beaches_wkt /\ ~w.beaches_200m)
        /\ (w.beach_fail # "none" => ~w.beaches_wkt /\ ~w.beaches_200m)
        /\ (o.geological_layout \in HardRock
              => w.shoreline = "Low" /\ w.rate_found /\ w.rate = SedimentRateCutoff)
        /\ (~w.rate_found => w.rate = SedimentRateCutoff) }

\* BeachBalance that asks for a beach on the transect only
BeachBalance_transect_only(w) ==
    IF w.beach_fail = "wkt" THEN "No Beach"
    ELSE IF w.beaches_wkt THEN "Beach"
    ELSE "No Beach"

\* the try block of the hard-rock branch
BeachBalance(w) ==
    IF w.beach_fail = "wkt" THEN "No Beach"
    ELSE IF w.beaches_wkt THEN "Beach"
    ELSE IF w.beach_fail = "200m" THEN "No Beach"
    ELSE IF w.beaches_200m THEN "Beach"
    ELSE "No Beach"

\* the try block of the other branch: None > 0.5 raises TypeError
SurplusBalance(o, w) ==
    IF w.shoreline # "Low"
    THEN IF ~w.rate_found THEN "Balance/Deficit"
         ELSE IF w.rate > SedimentRateCutoff THEN "Surplus"
         ELSE o.sediment_balance
    ELSE o.sediment_balance

\* CHW.get_info_sediment_balance
get_info_sediment_balance(o, w) ==
    Result(NoExc,
           [o EXCEPT !.sediment_balance =
               IF o.geological_layout \in HardRock
               THEN BeachBalance(w)
               ELSE SurplusBalance(o, w)])

----------------------------------------------------------------------------
(* Stage 6: storm climate *)

StormLookups == [ op : {"get_info_storm_climate"}, cyclone : {"Yes", "No", "Fail"} ]

\* CHW.get_info_storm_climate
get_info_storm_climate(o, w) ==
    Result(NoExc, [o EXCEPT !.storm_climate = IF w.cyclone = "Fail" THEN "No" ELSE w.cyclone])

----------------------------------------------------------------------------
(* Hazard classification and measures *)

\* rows of chw.decision_wheel: code and the five severities.  The table is
\* external data; two rows stand for it
DecisionRows ==
    << <<"PL-1", "1", "2", "3", "4", "1">>,
       <<"R-2", "4", "4", "1", "2", "3">> >>

\* DB.get_classes: cursor.fetchone() is the row, or None when no row matches;
\* "Fail" is a query that raises
ClassesLookups ==
    { w \in [ op : {"hazards_classification"},
              classes : {"row", "no row", "Fail"},
              row : 1..Len(DecisionRows) ] :
        w.classes # "row" => w.row = 1 }

\* hazards_classification whose except branch resets the code only
hazards_classification_code_only(o, w) ==
    IF w.classes = "row"
    THEN LET r == DecisionRows[w.row] IN
         Result(NoExc, [o EXCEPT !.code = r[1],
                                 !.ecosystem_disruption = r[2],
                                 !.gradual_inundation = r[3],
                                 !.salt_water_intrusion = r[4],
                                 !.erosion = r[5],
                                 !.flooding = r[6]])
    ELSE Result(NoExc, [o EXCEPT !.code = "None"])

\* CHW.hazards_classification: unpacking None raises TypeError inside the try
hazards_classification(o, w) ==
    IF w.classes = "row"
    THEN LET r == DecisionRows[w.row] IN
         Result(NoExc, [o EXCEPT !.code = r[1],
                                 !.ecosystem_disruption = r[2],
                                 !.gradual_inundation = r[3],
                                 !.salt_water_intrusion = r[4],
                                 !.erosion = r[5],
                                 !.flooding = r[6]])
    ELSE Result(NoExc, [o EXCEPT !.code = "None",
                                 !.ecosystem_disruption = "None",
                                 !.gradual_inundation = "None",
                                 !.salt_water_intrusion = "None",
                                 !.erosion = "None",
                                 !.flooding = "None"])

Hazards ==
    {"Ecosystem disruption", "Gradual inundation", "Salt water intrusion",
     "Erosion", "Flooding"}

\* codes for which management.managementoptions holds rows: codes of the
\* decision table (the sentinel "None" is not a code of the table)
TableCodes == {DecisionRows[i][1] : i \in 1..Len(DecisionRows)}

\* hazard categories with a row for a code of the table: all, none, or all but one
MeasureRowSets == {Hazards, {}} \cup {Hazards \ {h} : h \in Hazards}

\* DB.get_measures(code): the hazards that come back with a list of measures
get_measures(code, w) == IF code \in TableCodes THEN w.hazards ELSE {}

\* array_agg(managementoption) of one hazard of one code
MeasuresOf(code, hazard) == <<code, hazard>>

\* Lookups of provide_measures: the measures table
MeasuresLookups(o) ==
    { w \in [ op : {"provide_measures"},
              measures : {"rows", "Fail"},
              hazards : MeasureRowSets ] :
        w.measures = "Fail" \/ o.code \notin TableCodes => w.hazards = {} }

\* Lookup of get_risk_info: gar.gar
RiskLookups == [ op : {"get_risk_info"}, risk : {"ok", "Fail"} ]

\* Outcome of write_output(chw) and json.dumps(output)
OutputLookups == [ op : {"write_output"}, write_output : {"ok", "raise"} ]

\* provide_measures that keeps the lists found before the missing hazard
provide_measures_keeps_found(o, w) ==
    LET found == IF w.measures = "rows" /\ o.code # Unset THEN get_measures(o.code, w) ELSE {}
        order == <<"Ecosystem disruption", "Gradual inundation", "Salt water intrusion",
                   "Erosion", "Flooding">>
        list(i) == IF \A j \in 1..i : order[j] \in found
                   THEN MeasuresOf(o.code, order[i]) ELSE NoMeasures
    IN Result(NoExc,
           [o EXCEPT !.ecosystem_disruption_measures = list(1),
                     !.gradual_inundation_measures = list(2),
                     !.salt_water_intrusion_measures = list(3),
                     !.erosion_measures = list(4),
                     !.flooding_measures = list(5)])

\* CHW.provide_measures: measures[...] raises KeyError for a missing hazard,
\* and the except branch overwrites all five lists
provide_measures(o, w) ==
    IF w.measures = "rows" /\ o.code # Unset /\ get_measures(o.code, w) = Hazards
    THEN Result(NoExc,
           [o EXCEPT
              !.ecosystem_disruption_measures = MeasuresOf(o.code, "Ecosystem disruption"),
              !.gradual_inundation_measures = MeasuresOf(o.code, "Gradual inundation"),
              !.salt_water_intrusion_measures = MeasuresOf(o.code, "Salt water intrusion"),
              !.erosion_measures = MeasuresOf(o.code, "Erosion"),
              !.flooding_measures = MeasuresOf(o.code, "Flooding")])
    ELSE Result(NoExc,
           [o EXCEPT !.ecosystem_disruption_measures = NoMeasures,
                     !.gradual_inundation_measures = NoMeasures,
                     !.salt_water_intrusion_measures = NoMeasures,
                     !.erosion_measures = NoMeasures,
                     !.flooding_measures = NoMeasures])

\* CHW.get_risk_info
get_risk_info(o, w) ==
    IF w.risk = "ok"
    THEN Result(NoExc, [o EXCEPT !.gar = "tot_val", !.population = "tot_pob"])
    ELSE Result(NoExc, [o EXCEPT !.gar = "No data", !.population = "No data"])

\* utils.translate_hazard_danger
translate_hazard_danger(hazard) ==
    IF hazard # "None"
    THEN IF hazard = "1" THEN "Low"
         ELSE IF hazard = "2" THEN "Moderate"
         ELSE IF hazard = "3" THEN "High"
         ELSE IF hazard = "4" THEN "Very High"
         ELSE hazard
    ELSE hazard

\* CHW.translate_hazard_danger
translate(o) ==
    [o EXCEPT !.ecosystem_disruption = translate_hazard_danger(o.ecosystem_disruption),
              !.gradual_inundation = translate_hazard_danger(o.gradual_inundation),
              !.salt_water_intrusion = translate_hazard_danger(o.salt_water_intrusion),
              !.erosion = translate_hazard_danger(o.erosion),
              !.flooding = translate_hazard_danger(o.flooding)]

\* utils.write_output: the success output, here the six axes and the code
write_output(o) ==
    <<o.geological_layout, o.wave_exposure, o.tidal_range, o.flora_fauna,
      o.sediment_balance, o.storm_climate, o.code>>

----------------------------------------------------------------------------
(* Elevation profile and slope (raster_utils) *)

\* get_elevation_profile(..., step=30): distance between two samples, in metres
profile_step == 30
\* calc_slope_200m_inland: the window x < 300
inland_window == 300

IndexErrorMsg == "index 0 is out of bounds for axis 0 with size 0"

\* flat samples at sea level between the coastline and the terrain: none, or
\* as many as put the terrain at 180 m and beyond, or at 270 m and beyond
FlatLead == {0, 6, 9}

\* elevations of a profile: a flat lead, then at most MaxSamples samples of
\* 0..MaxElevation
Profiles ==
    UNION {{[i \in 1..lead |-> 0] \o terrain : terrain \in [1..n -> 0..MaxElevation]} :
            lead \in FlatLead, n \in 0..MaxSamples}

\* line_segmentation: range(0, int(line_length), step), one entry per sample
line_segmentation(n) == [i \in 1..n |-> profile_step * (i - 1)]

RECURSIVE Gcd(_, _)
Gcd(a, b) == IF b = 0 THEN a ELSE Gcd(b, a % b)

\* exact fractions in lowest terms, d > 0: the floats of the code without
\* their rounding error
Frac(n, d) ==
    LET g == Gcd(IF n < 0 THEN -n ELSE n, d) IN [num |-> n \div g, den |-> d \div g]
FracLeq(a, b) == a.num * b.den <= b.num * a.den

Abs(i) == IF i < 0 THEN -i ELSE i

\* np.sign
Sign(i) == IF i < 0 THEN -1 ELSE IF i > 0 THEN 1 ELSE 0

\* y[lo..hi] of Python's y[lo-1:hi]
Slice(y, lo, hi) == [i \in 1..(hi - lo + 1) |-> y[lo + i - 1]]

RECURSIVE SumSeq(_)
SumSeq(q) == IF Len(q) = 0 THEN 0 ELSE q[1] + SumSeq(Tail(q))

RECURSIVE SumFrac(_)
SumFrac(q) ==
    IF Len(q) = 0 THEN Frac(0, 1)
    ELSE LET t == SumFrac(Tail(q)) IN Frac(q[1].num * t.den + t.num * q[1].den, q[1].den * t.den)

\* np.sign(np.diff(y) / np.diff(x)): x is strictly increasing
msign(y, x) == [k \in 1..(Len(y) - 1) |-> Sign(y[k + 1] - y[k]) * Sign(x[k + 1] - x[k])]

\* the five pairs of signs calc_slope looks for
searchvals == {<<0, 1>>, <<1, -1>>, <<-1, 1>>, <<-1, 0>>, <<1, 0>>}

\* detect_pattern(searchval, array)
detect_pattern(searchval, array) ==
    [k \in 1..(Len(array) - 1) |-> array[k] = searchval[1] /\ array[k + 1] = searchval[2]]

\* slope_patterns: any(...) over the five patterns, per pair of intervals
slope_patterns(signs) ==
    [k \in 1..(Len(signs) - 1) |-> \E searchval \in searchvals : detect_pattern(searchval, signs)[k]]

\* indeces = np.where(slope_patterns == True)[0] + 2, ascending.  Pattern k
\* (from 1) is Python's k - 1, so the entry is k + 1: as a slice bound it is
\* the sample k + 1 counted from 1, the sample the two intervals share
indeces(patterns) ==
    LET found == {k + 1 : k \in {j \in DOMAIN patterns : patterns[j]}} IN
    [i \in 1..Cardinality(found) |->
        CHOOSE c \in found : Cardinality({d \in found : d < c}) = i - 1]

\* segment_ranges with indeces_start = indeces - 2: neighbours share two samples
segment_ranges_overlap_two(ind, n) ==
    [i \in 1..(Len(ind) + 1) |->
        <<IF i = 1 THEN 1 ELSE ind[i - 1] - 1, IF i = Len(ind) + 1 THEN n ELSE ind[i]>>]

\* the sample ranges the loop regresses, counted from 1 and inclusive:
\* y[:end[0]], y[start[i-1]:end[i]], y[start[-1]:] with start = indeces - 1
segment_ranges(ind, n) ==
    [i \in 1..(Len(ind) + 1) |->
        <<IF i = 1 THEN 1 ELSE ind[i - 1], IF i = Len(ind) + 1 THEN n ELSE ind[i]>>]

\* scipy.stats.linregress(distances, elevations).slope, least squares
linregress(distances, elevations) ==
    LET n == Len(distances)
        sx == SumSeq(distances)
        sy == SumSeq(elevations)
        sxy == SumSeq([i \in 1..n |-> distances[i] * elevations[i]])
        sxx == SumSeq([i \in 1..n |-> distances[i] * distances[i]])
    IN Frac(n * sxy - sx * sy, n * sxx - sx * sx)

\* statistics.mean of fractions
mean(slopes) ==
    LET t == SumFrac(slopes) IN Frac(t.num, t.den * Len(slopes))

\* max of fractions
max(slopes) ==
    slopes[CHOOSE i \in DOMAIN slopes : \A j \in DOMAIN slopes : FracLeq(slopes[j], slopes[i])]

\* calc_slope(elevations, segments): the loop reads indeces_end[0] first, which
\* raises IndexError when no pattern was found.  The result keeps what the
\* function computed on the way
calc_slope(elevations, segments) ==
    LET patterns == slope_patterns(msign(elevations, segments))
        ind == indeces(patterns)
        ranges == segment_ranges(ind, Len(elevations))
        slopes ==
            [i \in DOMAIN ranges |->
                LET a == linregress(Slice(segments, ranges[i][1], ranges[i][2]),
                                    Slice(elevations, ranges[i][1], ranges[i][2]))
                IN Frac(Abs(a.num) * 100, a.den)]
    IN IF Len(ind) = 0
       THEN [exc |-> IndexErrorMsg, slope_patterns |-> patterns, indeces |-> ind,
             ranges |-> <<>>, slopes |-> <<>>,
             mean_slope |-> Frac(0, 1), max_slope |-> Frac(0, 1)]
       ELSE [exc |-> NoExc, slope_patterns |-> patterns, indeces |-> ind,
             ranges |-> ranges, slopes |-> slopes,
             mean_slope |-> mean(slopes), max_slope |-> max(slopes)]

\* calc_slope_200m_inland(elevations, segments): the statements of calc_slope
\* on the samples with x < 300, inside a try whose except branch gives 0.00
calc_slope_200m_inland(elevations, segments) ==
    LET inland_200 == Cardinality({i \in DOMAIN segments : segments[i] < inland_window})
        r == calc_slope(Slice(elevations, 1, inland_200), Slice(segments, 1, inland_200))
    IN IF r.exc # NoExc THEN Frac(0, 1) ELSE r.max_slope

\* round(self.slope, 1) in tenths: the nearest tenth, a tie to the even one
round1(f) ==
    LET q == (10 * f.num) \div f.den
        r == (10 * f.num) % f.den
    IN IF 2 * r < f.den THEN q
       ELSE IF 2 * r > f.den THEN q + 1
       ELSE IF q % 2 = 0 THEN q ELSE q + 1

----------------------------------------------------------------------------
(* The request handlers *)

VARIABLES
    handler,    \* the process whose _handler serves the request
    pc,         \* the step of _handler that runs next
    locals,     \* the local names bound in _handler: line_geojson, chw
    chw,        \* the CHW object (meaningful once "chw" is bound)
    response,   \* response.outputs["output_json"].data
    raised,     \* history: the steps of the request that raised
    calls,      \* history: the CHW methods called, in order
    method_exc, \* history: the exception the method called last ended with
    lookups,    \* the external results seen by the step that ran last
    raster      \* the elevation profile of the transect and what was computed of it

vars == <<handler, pc, locals, chw, response, raised, calls, method_exc, lookups, raster>>

Steps ==
    <<"read_input", "init_chw", "geological_layout", "wave_exposure", "tidal_range",
      "flora_fauna", "sediment_balance", "storm_climate", "classification", "measures",
      "risk_info", "output">>

StepPos(step) == CHOOSE i \in 1..Len(Steps) : Steps[i] = step

NextStep(step) == IF StepPos(step) = Len(Steps) THEN "done" ELSE Steps[StepPos(step) + 1]

\* the steps of WpsChw20._handler that end with a call of logging.INFO, an
\* integer: the call raises TypeError inside the try block of the step
LoggedSteps ==
    {"geological_layout", "wave_exposure", "tidal_range", "flora_fauna",
     "sediment_balance", "storm_climate"}

TypeErrorMsg == "'int' object is not callable"
InputErrorMsg == "invalid input"
OutputErrorMsg == "output cannot be written"

\* msg of the except branch of each try block of WpsChw20._handler
ProdMsg(step) ==
    CASE step = "read_input" -> "Failed to read the input"
      [] step = "init_chw" -> "Failed to initiate the CHW"
      [] step = "geological_layout" -> "Failed to get information for geological layout"
      [] step = "wave_exposure" -> "Failed to get information for wave exposure"
      [] step = "tidal_range" -> "Failed to get information tidal range"
      [] step = "flora_fauna" -> "Failed to get information for flora fauna"
      [] step = "sediment_balance" -> "Failed to get information for sediment balance"
      [] step = "storm_climate" -> "Failed to get information for storm climate"
      [] step = "classification" -> "Something went wrong during the classification"
      [] step = "measures" -> "Failde to provide measures"
      [] step = "risk_info" -> "Failde to provide measures"
      [] step = "output" -> "Failde to provide measures"

NoResponse == [kind |-> "none", errMsg |-> "", output |-> <<>>]
ErrResponse(msg) == [kind |-> "errMsg", errMsg |-> msg, output |-> <<>>]
OutputResponse(out) == [kind |-> "output", errMsg |-> "", output |-> out]

NoLookups == [op |-> "none"]

\* the requests of Spec take the slope from the lookups of the constructor
NoRaster == [op |-> "none"]

\* What a handler does when a step ends with exception exc (NoExc: normally).
\* WpsChw20._handler has one try block per step and goes on with the next
\* step after the except branch; the test handler has one try block around
\* the whole request and answers {"errMsg": str(e)}
Continue(step, exc) ==
    IF exc = NoExc
    THEN /\ pc' = NextStep(step)
         /\ UNCHANGED <<response, raised>>
    ELSE /\ raised' = raised \cup {step}
         /\ IF handler = "WpsChw20"
            THEN /\ response' = ErrResponse(ProdMsg(step))
                 /\ pc' = NextStep(step)
            ELSE /\ response' = ErrResponse(exc)
                 /\ pc' = "done"

\* a step of WpsChw20._handler that uses chw after the constructor raised
Unbound(step) ==
    /\ "chw" \notin locals
    /\ lookups' = NoLookups
    /\ method_exc' = NoExc
    /\ UNCHANGED <<handler, locals, chw, calls, raster>>
    /\ Continue(step, NameErrorMsg)

\* a step that calls a method of chw; r is the result of the method
Called(step, name, w, r) ==
    /\ chw' = r.obj
    /\ calls' = Append(calls, name)
    /\ method_exc' = r.exc
    /\ lookups' = w
    /\ UNCHANGED <<handler, locals, raster>>
    /\ Continue(step,
                IF r.exc # NoExc THEN r.exc
                ELSE IF handler = "WpsChw20" /\ step \in LoggedSteps THEN TypeErrorMsg
                ELSE NoExc)

Init ==
    /\ handler \in Handlers
    /\ pc = "read_input"
    /\ locals = {}
    /\ chw = NewCHW(Variant(handler))
    /\ response = NoResponse
    /\ raised = {}
    /\ calls = <<>>
    /\ method_exc = NoExc
    /\ lookups = NoLookups
    /\ raster = NoRaster

\* line_geojson = geojson.loads(request.inputs["transect"][0].data)
ReadInput ==
    /\ pc = "read_input"
    /\ \E ok \in BOOLEAN :
          /\ lookups' = [op |-> "read_input", ok |-> ok]
          /\ locals' = IF ok THEN locals \cup {"line_geojson"} ELSE locals
          /\ Continue("read_input", IF ok THEN NoExc ELSE InputErrorMsg)
    /\ UNCHANGED <<handler, chw, calls, method_exc, raster>>

\* chw = CHW(line_geojson)
InitChw ==
    /\ pc = "init_chw"
    /\ \/ /\ "line_geojson" \notin locals
          /\ lookups' = NoLookups
          /\ UNCHANGED <<handler, locals, chw, calls, method_exc, raster>>
          /\ Continue("init_chw", NameErrorMsg)
       \/ /\ "line_geojson" \in locals
          /\ \E w \in InitLookups(Variant(handler)) :
                LET r == CHW_init(Variant(handler), w) IN
                /\ lookups' = w
                /\ calls' = Append(calls, "__init__")
                /\ method_exc' = r.exc
                /\ chw' = IF r.exc = NoExc THEN r.obj ELSE chw
                /\ locals' = IF r.exc = NoExc THEN locals \cup {"chw"} ELSE locals
                /\ Continue("init_chw", r.exc)
          /\ UNCHANGED <<handler, raster>>

\* chw.get_info_geological_layout()
GeologicalLayoutStep ==
    /\ pc = "geological_layout"
    /\ \/ Unbound("geological_layout")
       \/ /\ "chw" \in locals
          /\ \E w \in GeoLookups(chw) :
                Called("geological_layout", "get_info_geological_layout", w,
                       get_info_geological_layout(chw, w))

\* chw.get_info_wave_exposure()
WaveExposureStep ==
    /\ pc = "wave_exposure"
    /\ \/ Unbound("wave_exposure")
       \/ /\ "chw" \in locals
          /\ \E w \in WaveLookups :
                Called("wave_exposure", "get_info_wave_exposure", w,
                       get_info_wave_exposure(chw, w))

\* chw.get_info_tidal_range(); WpsChw20._handler calls chw.get_info_tida_range(),
\* a name CHW does not define: AttributeError, and no method runs
TidalRangeStep ==
    /\ pc = "tidal_range"
    /\ \/ Unbound("tidal_range")
       \/ /\ "chw" \in locals
          /\ handler = "WpsChw20"
          /\ lookups' = NoLookups
          /\ method_exc' = NoExc
          /\ UNCHANGED <<handler, locals, chw, calls, raster>>
          /\ Continue("tidal_range", AttributeErrorMsg)
       \/ /\ "chw" \in locals
          /\ handler # "WpsChw20"
          /\ \E w \in TidalLookups :
                Called("tidal_range", "get_info_tidal_range", w, get_info_tidal_range(chw, w))

\* chw.get_info_flora_fauna()
FloraFaunaStep ==
    /\ pc = "flora_fauna"
    /\ \/ Unbound("flora_fauna")
       \/ /\ "chw" \in locals
          /\ \E w \in FloraLookups(chw) :
                Called("flora_fauna", "get_info_flora_fauna", w, get_info_flora_fauna(chw, w))

\* chw.get_info_sediment_balance()
SedimentBalanceStep ==
    /\ pc = "sediment_balance"
    /\ \/ Unbound("sediment_balance")
       \/ /\ "chw" \in locals
          /\ \E w \in SedimentLookups(chw) :
                Called("sediment_balance", "get_info_sediment_balance", w,
                       get_info_sediment_balance(chw, w))

\* chw.get_info_storm_climate()
StormClimateStep ==
    /\ pc = "storm_climate"
    /\ \/ Unbound("storm_climate")
       \/ /\ "chw" \in locals
          /\ \E w \in StormLookups :
                Called("storm_climate", "get_info_storm_climate", w,
                       get_info_storm_climate(chw, w))

\* chw.hazards_classification()
ClassificationStep ==
    /\ pc = "classification"
    /\ \/ Unbound("classification")
       \/ /\ "chw" \in locals
          /\ \E w \in ClassesLookups :
                Called("classification", "hazards_classification", w,
                       hazards_classification(chw, w))

\* chw.provide_measures()
MeasuresStep ==
    /\ pc = "measures"
    /\ \/ Unbound("measures")
       \/ /\ "chw" \in locals
          /\ \E w \in MeasuresLookups(chw) :
                Called("measures", "provide_measures", w, provide_measures(chw, w))

\* chw.get_risk_info(); chw.translate_hazard_danger(): the test handler only
RiskInfoStep ==
    /\ pc = "risk_info"
    /\ IF handler = "WpsChw20"
       THEN /\ pc' = NextStep("risk_info")
            /\ UNCHANGED <<handler, locals, chw, response, raised, calls, method_exc,
                           lookups, raster>>
       ELSE \E w \in RiskLookups :
                Called("risk_info", "get_risk_info", w,
                       Result(NoExc, translate(get_risk_info(chw, w).obj)))

\* output = write_output(chw); response.outputs["output_json"].data = json.dumps(output)
OutputStep ==
    /\ pc = "output"
    /\ \/ Unbound("output")
       \/ /\ "chw" \in locals
          /\ \E w \in OutputLookups :
                /\ lookups' = w
                /\ UNCHANGED <<handler, locals, chw, calls, method_exc, raster>>
                /\ IF w.write_output = "ok"
                   THEN /\ response' = OutputResponse(write_output(chw))
                        /\ pc' = "done"
                        /\ UNCHANGED raised
                   ELSE Continue("output", OutputErrorMsg)

Next ==
    \/ ReadInput
    \/ InitChw
    \/ GeologicalLayoutStep
    \/ WaveExposureStep
    \/ TidalRangeStep
    \/ FloraFaunaStep
    \/ SedimentBalanceStep
    \/ StormClimateStep
    \/ ClassificationStep
    \/ MeasuresStep
    \/ RiskInfoStep
    \/ OutputStep

Spec == Init /\ [][Next]_vars

----------------------------------------------------------------------------
(* The slope of a sampled profile: calc_slope as the constructor calls it,
   calc_slope_200m_inland as get_vegetation calls it *)

\* self.elevations, self.segments = get_elevation_profile(...): any profile
SlopeInit ==
    /\ handler \in Handlers
    /\ pc = "calc_slope"
    /\ locals = {}
    /\ chw = NewCHW(Variant(handler))
    /\ response = NoResponse
    /\ raised = {}
    /\ calls = <<>>
    /\ method_exc = NoExc
    /\ lookups = NoLookups
    /\ \E elevations \in Profiles :
          raster = [op |-> "get_elevation_profile",
                    elevations |-> elevations,
                    segments |-> line_segmentation(Len(elevations)),
                    calc_slope |-> Unset,
                    slope_200m_inland |-> Unset]

\* self.slope, self.max_slope = calc_slope(self.elevations, self.segments);
\* self.slope = round(self.slope, 1), in the try block of the constructor
CalcSlopeStep ==
    /\ pc = "calc_slope"
    /\ LET r == calc_slope(raster.elevations, raster.segments)
           w == [dem |-> IF r.exc = NoExc THEN "ok" ELSE "slope_fail",
                 slope |-> round1(r.mean_slope)]
           s == InitSlope(Variant(handler), w, NewCHW(Variant(handler)))
       IN /\ raster' = [raster EXCEPT !.op = "calc_slope", !.calc_slope = r]
          /\ calls' = Append(calls, "calc_slope")
          /\ method_exc' = s.exc
          /\ chw' = IF s.exc = NoExc THEN s.obj ELSE chw
          /\ pc' = IF s.exc = NoExc THEN "calc_slope_200m_inland" ELSE "done"
    /\ UNCHANGED <<handler, locals, response, raised, lookups>>

\* slope = calc_slope_200m_inland(self.elevations, self.segments) in
\* get_vegetation, which needs the object the constructor returns
CalcSlopeInlandStep ==
    /\ pc = "calc_slope_200m_inland"
    /\ raster' = [raster EXCEPT !.op = "calc_slope_200m_inland",
                                !.slope_200m_inland =
                                    calc_slope_200m_inland(raster.elevations, raster.segments)]
    /\ calls' = Append(calls, "calc_slope_200m_inland")
    /\ pc' = "done"
    /\ UNCHANGED <<handler, locals, chw, response, raised, method_exc, lookups>>

SlopeNext ==
    \/ CalcSlopeStep
    \/ CalcSlopeInlandStep

SlopeSpec == SlopeInit /\ [][SlopeNext]_vars

----------------------------------------------------------------------------
(* Properties of stage 1 *)

----------------------------------------------------------------------------
(* Properties of the error handling *)

\* C2: in the production classifier no failure of an external lookup gets out
\* of the constructor or of a get_info_* method, and the handler reaches
\* hazards_classification with a CHW object
C2_LookupFailuresAreCaught ==
    handler = "WpsChw20" =>
        /\ method_exc # LookupErrorMsg
        /\ (pc = "classification" => "chw" \in locals)

C5_NoElevationIsFatalInTesting ==
    /\ handler = "WpsCoastalHazardWheelTest"
    /\ lookups.op = "__init__"
    /\ lookups.dem # "ok"
    => /\ method_exc = NoElevationMsg
       /\ pc = "done"
       /\ response = ErrResponse(NoElevationMsg)
       /\ calls = <<"__init__">>
       /\ "chw" \notin locals

\* a request of the test handler whose elevation profile has no slope
C5_SlopeFailureAnswered ==
    /\ handler = "WpsCoastalHazardWheelTest"
    /\ lookups.op = "__init__"
    /\ lookups.dem = "slope_fail"
    /\ response.kind = "errMsg"
    /\ response.errMsg = NoElevationMsg

C7_NoRowGivesNoneAndNoMeasures ==
    /\ lookups.op = "hazards_classification" /\ lookups.classes = "no row"
       => /\ method_exc = NoExc
          /\ chw.code = "None"
          /\ chw.ecosystem_disruption = "None"
          /\ chw.gradual_inundation = "None"
          /\ chw.salt_water_intrusion = "None"
          /\ chw.erosion = "None"
          /\ chw.flooding = "None"
    /\ lookups.op = "provide_measures" /\ chw.code = "None"
       => /\ method_exc = NoExc
          /\ chw.ecosystem_disruption_measures = NoMeasures
          /\ chw.gradual_inundation_measures = NoMeasures
          /\ chw.salt_water_intrusion_measures = NoMeasures
          /\ chw.erosion_measures = NoMeasures
          /\ chw.flooding_measures = NoMeasures

\* provide_measures has run on an object without a decision row while the
\* measures table answers
C7_MeasuresAfterNoRow ==
    /\ lookups.op = "provide_measures"
    /\ lookups.measures = "rows"
    /\ chw.code = "None"
    /\ chw.erosion = "None"
    /\ chw.flooding_measures = NoMeasures

\* C8: corals on a slope strictly below the hard-rock cut-off, with neither
\* the river-mouth rule nor the coral-island test firing, give "Flat hard
\* rock" whatever the geology and the barrier and estuary intersections are
C8_CoralsOnFlatSlopeAreFlatHardRock ==
    /\ lookups.op = "get_info_geological_layout"
    /\ method_exc = NoExc
    /\ chw.corals
    /\ chw.slope < SlopeHr(chw.variant)
    /\ ~RiverMouthRule(chw, lookups)
    /\ ~check_coral_islands(chw, lookups)
    => chw.geological_layout = "Flat hard rock"

\* the case on unconsolidated material with a barrier on the transect
C8_FlatHardRockOverBarrier ==
    /\ lookups.op = "get_info_geological_layout"
    /\ method_exc = NoExc
    /\ chw.corals
    /\ chw.slope < SlopeHr(chw.variant)
    /\ chw.geology = "fluvisol"
    /\ lookups.barriers_sandspits
    /\ lookups.estuaries_wkt
    /\ chw.geological_layout = "Flat hard rock"

----------------------------------------------------------------------------
(* Properties of stage 2 *)

\* C9: with each candidate set being the fetched coastline ids and the
\* transect's own coastline_id, base "moderately exposed" (also the base of a
\* failed lookup) becomes "protected" iff the 10 km set has more than one
\* element; base "exposed" becomes "protected" iff the 10 km set has more than
\* one element, otherwise "moderately exposed" iff the 100 km set has more
\* than one element, otherwise stays; base "protected" stays
C9_WaveExposureDeEscalation ==
    lookups.op = "get_info_wave_exposure" /\ method_exc = NoExc =>
        LET base == IF lookups.wave = "Fail" THEN "moderately exposed" ELSE lookups.wave
            many10 == Cardinality(lookups.closest_10km \cup {lookups.coastline_id}) > 1
            many100 == Cardinality(lookups.closest_100km \cup {lookups.coastline_id}) > 1
        IN chw.wave_exposure =
              CASE base = "moderately exposed" ->
                      IF many10 THEN "protected" ELSE "moderately exposed"
                [] base = "exposed" ->
                      IF many10 THEN "protected"
                      ELSE IF many100 THEN "moderately exposed"
                      ELSE "exposed"
                [] OTHER -> "protected"

\* exposed goes to protected on the 10 km set alone
C9_ExposedToProtectedOn10km ==
    /\ lookups.op = "get_info_wave_exposure"
    /\ method_exc = NoExc
    /\ lookups.wave = "exposed"
    /\ Cardinality(lookups.closest_100km \cup {lookups.coastline_id}) = 1
    /\ Cardinality(lookups.closest_10km \cup {lookups.coastline_id}) > 1
    /\ chw.wave_exposure = "protected"

\* C10 as stated: base "exposed", two coastlines fetched within 100 km and one
\* within 10 km give "moderately exposed" for every coastline_id
C10_TwoAndOneIsModeratelyExposed ==
    /\ lookups.op = "get_info_wave_exposure"
    /\ method_exc = NoExc
    /\ lookups.wave = "exposed"
    /\ Cardinality(lookups.closest_100km) = 2
    /\ Cardinality(lookups.closest_10km) = 1
    => chw.wave_exposure = "moderately exposed"

\* C10: base "exposed", two coastlines fetched within 100 km and one within
\* 10 km give "moderately exposed" when the 10 km coastline is the transect's
\* own coastline_id, and "protected" when it is another one
C10_TwoAndOneDependsOnCoastlineId ==
    /\ lookups.op = "get_info_wave_exposure"
    /\ method_exc = NoExc
    /\ lookups.wave = "exposed"
    /\ Cardinality(lookups.closest_100km) = 2
    /\ Cardinality(lookups.closest_10km) = 1
    => chw.wave_exposure = IF lookups.coastline_id \in lookups.closest_10km
                           THEN "moderately exposed"
                           ELSE "protected"

\* the 10 km coastline is not the transect's own
C10_OtherCoastlineWithin10km ==
    /\ lookups.op = "get_info_wave_exposure"
    /\ method_exc = NoExc
    /\ lookups.wave = "exposed"
    /\ Cardinality(lookups.closest_100km) = 2
    /\ Cardinality(lookups.closest_10km) = 1
    /\ lookups.coastline_id \notin lookups.closest_10km
    /\ chw.wave_exposure = "protected"

----------------------------------------------------------------------------
(* Properties of stage 4 *)

\* C11: on "Sloping soft rock" get_info_flora_fauna takes the vegetation
\* sub-classifier: flora_fauna is "Vegetated" iff the pixels 150, 190, 200 and
\* 220 do not outnumber the other pixels and the slope of the inland window
\* is below the vegetation cut-off, and "Not vegetated" otherwise, whatever
\* the corals, mangroves and saltmarshes are
C11_SlopingSoftRockTakesVegetation ==
    /\ lookups.op = "get_info_flora_fauna"
    /\ method_exc = NoExc
    /\ chw.geological_layout = "Sloping soft rock"
    => chw.flora_fauna =
          IF /\ lookups.category_a <= lookups.category_b
             /\ lookups.slope_inland < SlopeVeg(chw.variant)
          THEN "Vegetated"
          ELSE "Not vegetated"

\* vegetated with as many pixels in either category, mangroves and
\* saltmarshes on the transect
C11_VegetatedDespiteMangroves ==
    /\ lookups.op = "get_info_flora_fauna"
    /\ method_exc = NoExc
    /\ chw.geological_layout = "Sloping soft rock"
    /\ lookups.mangroves
    /\ lookups.saltmarshes
    /\ lookups.category_a = lookups.category_b
    /\ chw.flora_fauna = "Vegetated"

\* C12: "Flat hard rock", wave exposure "protected" and neither mangroves
\* nor saltmarshes give flora_fauna "No", also when corals is true
C12_ProtectedFlatHardRockIsNo ==
    /\ lookups.op = "get_info_flora_fauna"
    /\ method_exc = NoExc
    /\ chw.geological_layout = "Flat hard rock"
    /\ chw.wave_exposure = "protected"
    /\ ~lookups.mangroves
    /\ ~lookups.saltmarshes
    => chw.flora_fauna = "No"

\* the case with corals
C12_NoDespiteCorals ==
    /\ lookups.op = "get_info_flora_fauna"
    /\ method_exc = NoExc
    /\ chw.geological_layout = "Flat hard rock"
    /\ chw.wave_exposure = "protected"
    /\ chw.corals
    /\ chw.flora_fauna = "No"

\* C13 as stated: on "Sloping hard rock", "Flat hard rock" and "Coral island"
\* flora_fauna is "Corals" with corals, else "Marsh/mangrove" with mangroves
\* or saltmarshes, else the default "Any"
C13_HardRockFloraFauna ==
    /\ lookups.op = "get_info_flora_fauna"
    /\ method_exc = NoExc
    /\ chw.geological_layout \in {"Sloping hard rock", "Flat hard rock", "Coral island"}
    => chw.flora_fauna =
          IF chw.corals THEN "Corals"
          ELSE IF lookups.mangroves \/ lookups.saltmarshes THEN "Marsh/mangrove"
          ELSE "Any"

\* C13: the same, except on a protected "Flat hard rock" without mangroves
\* and saltmarshes, where flora_fauna is "No"
C13_HardRockFloraFaunaButNo ==
    /\ lookups.op = "get_info_flora_fauna"
    /\ method_exc = NoExc
    /\ chw.geological_layout \in {"Sloping hard rock", "Flat hard rock", "Coral island"}
    /\ ~ /\ chw.geological_layout = "Flat hard rock"
         /\ chw.wave_exposure = "protected"
         /\ ~lookups.mangroves
         /\ ~lookups.saltmarshes
    => chw.flora_fauna =
          IF chw.corals THEN "Corals"
          ELSE IF lookups.mangroves \/ lookups.saltmarshes THEN "Marsh/mangrove"
          ELSE "Any"

\* corals win over mangroves on a protected flat hard rock
C13_CoralsOverMangroves ==
    /\ lookups.op = "get_info_flora_fauna"
    /\ method_exc = NoExc
    /\ chw.geological_layout = "Flat hard rock"
    /\ chw.wave_exposure = "protected"
    /\ chw.corals
    /\ lookups.mangroves
    /\ chw.flora_fauna = "Corals"

\* C14: on every other layout flora_fauna is the marsh pair with saltmarshes,
\* else the mangrove pair with mangroves, else the mangrove pair for a
\* latitude in [-25, 25] and the marsh pair outside; of a pair it is the
\* "Intermittent" member iff tidal_range is "micro"
C14_MarshMangrovePairs ==
    /\ lookups.op = "get_info_flora_fauna"
    /\ method_exc = NoExc
    /\ chw.geological_layout \notin
          {"Sloping soft rock", "Sloping hard rock", "Flat hard rock", "Coral island"}
    => LET micro == chw.tidal_range = "micro"
           marsh == IF micro THEN "Intermittent marsh" ELSE "Marsh/tidal flat"
           mangrove == IF micro THEN "Intermittent mangrove" ELSE "Mangrove/tidal flat"
       IN chw.flora_fauna =
             IF lookups.saltmarshes THEN marsh
             ELSE IF lookups.mangroves THEN mangrove
             ELSE IF -25 <= lookups.lat /\ lookups.lat <= 25 THEN mangrove
             ELSE marsh

\* the latitude 25 with the default tidal range
C14_MangroveAtLatitude25 ==
    /\ lookups.op = "get_info_flora_fauna"
    /\ method_exc = NoExc
    /\ chw.geological_layout = "Barrier"
    /\ chw.tidal_range = "any"
    /\ ~lookups.saltmarshes
    /\ ~lookups.mangroves
    /\ lookups.lat = 25
    /\ chw.flora_fauna = "Mangrove/tidal flat"

----------------------------------------------------------------------------
(* Properties of stage 5 *)

\* C15: on "Flat hard rock" and "Sloping hard rock" sediment_balance is
\* "Beach" iff a beach intersects the transect or its 200 m extension and
\* "No Beach" otherwise; a beach lookup that raises gives "No Beach" and the
\* stage does not raise
C15_BeachOnHardRock ==
    /\ lookups.op = "get_info_sediment_balance"
    /\ chw.geological_layout \in {"Flat hard rock", "Sloping hard rock"}
    => /\ method_exc = NoExc
       /\ chw.sediment_balance =
             IF /\ lookups.beach_fail = "none"
                /\ (lookups.beaches_wkt \/ lookups.beaches_200m)
             THEN "Beach"
             ELSE "No Beach"

\* a beach on the 200 m extension only
C15_BeachOnExtensionOnly ==
    /\ lookups.op = "get_info_sediment_balance"
    /\ chw.geological_layout = "Sloping hard rock"
    /\ ~lookups.beaches_wkt
    /\ lookups.beaches_200m
    /\ chw.sediment_balance = "Beach"

\* C16: on every other layout sediment_balance is "Surplus" iff the shoreline
\* change was retrieved and is not "Low" and the change rate was retrieved
\* and exceeds 0.5, and "Balance/Deficit" in every other case
C16_SurplusNeedsBothLookups ==
    /\ lookups.op = "get_info_sediment_balance"
    /\ chw.geological_layout \notin {"Flat hard rock", "Sloping hard rock"}
    => chw.sediment_balance =
          IF /\ lookups.shoreline # PyNone
             /\ lookups.shoreline # "Low"
             /\ lookups.rate_found
             /\ lookups.rate > SedimentRateCutoff
          THEN "Surplus"
          ELSE "Balance/Deficit"

----------------------------------------------------------------------------
(* Properties of the slope computation *)

\* C17: for every profile with a single monotonic slope (at least two samples,
\* all consecutive samples rising or all falling at one constant rate)
\* calc_slope returns without raising, and its mean slope and its max slope
\* both equal |dy/dx * 100|.
C17_MonotonicProfileHasOneSlope ==
    LET y == raster.elevations
        r == raster.calc_slope
    IN (/\ raster.op \in {"calc_slope", "calc_slope_200m_inland"}
        /\ Len(y) >= 2
        /\ y[2] # y[1]
        /\ \A k \in 1..(Len(y) - 1) : y[k + 1] - y[k] = y[2] - y[1])
       => /\ r.exc = NoExc
          /\ r.mean_slope = Frac(Abs(y[2] - y[1]) * 100, profile_step)
          /\ r.max_slope = r.mean_slope

\* C18 as stated: with a profile of exactly one sample the slope computation
\* fails soft in both handlers: the constructor returns with slope 0.00 and
\* the inland slope is 0.00.
C18_OneSampleFailsSoft ==
    (Len(raster.elevations) = 1 /\ raster.op # "get_elevation_profile")
    => /\ method_exc = NoExc
       /\ chw.slope = 0
       /\ raster.op = "calc_slope_200m_inland" => raster.slope_200m_inland = Frac(0, 1)

\* C18 amended: with a profile of exactly one sample calc_slope raises.  The
\* constructor of chw_utils catches that and the object has slope 0.00, and
\* calc_slope_200m_inland gives 0.00 for it; the constructor of
\* chw_utils_test_environment raises the no-elevation message instead, and no
\* object and no inland slope exist.
C18_OneSampleFailsSoftInProductionOnly ==
    (Len(raster.elevations) = 1 /\ raster.op # "get_elevation_profile")
    => /\ raster.calc_slope.exc = IndexErrorMsg
       /\ Variant(handler) = "production"
            => /\ method_exc = NoExc
               /\ chw.slope = 0
               /\ chw.elevations = "profile"
               /\ raster.op = "calc_slope_200m_inland"
                    => raster.slope_200m_inland = Frac(0, 1)
       /\ Variant(handler) = "testing"
            => /\ method_exc = NoElevationMsg
               /\ chw = NewCHW("testing")
               /\ raster.op = "calc_slope"
               /\ pc = "done"

C18_OneSampleBothSlopesZero ==
    /\ Len(raster.elevations) = 1
    /\ raster.op = "calc_slope_200m_inland"
    /\ handler = "WpsChw20"
    /\ chw.slope = 0
    /\ raster.slope_200m_inland = Frac(0, 1)

\* C20: calc_slope places a changepoint at every pair of consecutive intervals
\* whose slope signs differ (rising/falling reversals, sloped to flat, flat to
\* rising and flat to falling) and at no pair whose two signs are equal.
C20_ChangepointAtEverySignChange ==
    LET signs == msign(raster.elevations, raster.segments)
        r == raster.calc_slope
    IN raster.op \in {"calc_slope", "calc_slope_200m_inland"}
       => /\ \A k \in 1..(Len(signs) - 1) : r.slope_patterns[k] <=> signs[k] # signs[k + 1]
          /\ {r.indeces[i] : i \in DOMAIN r.indeces}
                = {k + 1 : k \in {j \in 1..(Len(signs) - 1) : signs[j] # signs[j + 1]}}

----------------------------------------------------------------------------
(* Repeatability *)

----------------------------------------------------------------------------
(* Properties of the segmentation *)

\* C21: for a profile of n samples with k >= 1 changepoints c1 < ... < ck
\* (pattern index + 2) calc_slope regresses exactly k + 1 segments, with the
\* samples [0, c1), [c1 - 1, c2), ..., [ck - 1, n) counted from 0: consecutive
\* segments share exactly one sample, every sample lies in a segment and
\* every segment has at least two samples.
C21_SegmentsOverlapByOneSample ==
    LET r == raster.calc_slope
        n == Len(raster.elevations)
        k == Len(r.indeces)
        \* the samples of segment i, counted from 0
        S(i) == {j \in 0..(n - 1) : /\ r.ranges[i][1] - 1 <= j
                                   /\ j <= r.ranges[i][2] - 1}
        \* Python's range(a, b)
        range(a, b) == {j \in 0..(n - 1) : a <= j /\ j < b}
    IN (raster.op \in {"calc_slope", "calc_slope_200m_inland"} /\ r.exc = NoExc)
       => /\ k >= 1
          /\ \A i \in 1..(k - 1) : r.indeces[i] < r.indeces[i + 1]
          /\ Len(r.slopes) = k + 1
          /\ Len(r.ranges) = k + 1
          /\ S(1) = range(0, r.indeces[1])
          /\ \A i \in 2..k : S(i) = range(r.indeces[i - 1] - 1, r.indeces[i])
          /\ S(k + 1) = range(r.indeces[k] - 1, n)
          /\ \A i \in 1..k : Cardinality(S(i) \cap S(i + 1)) = 1
          /\ UNION {S(i) : i \in 1..(k + 1)} = 0..(n - 1)
          /\ \A i \in 1..(k + 1) : Cardinality(S(i)) >= 2

C21_ThreeSegments ==
    /\ raster.op = "calc_slope"
    /\ raster.calc_slope.exc = NoExc
    /\ Len(raster.calc_slope.indeces) = 2
    /\ Len(raster.calc_slope.slopes) = 3

\* C22: calc_slope_200m_inland truncates the profile to the samples within
\* 200 m of the coast and returns the maximum segment slope of that window
\* (0.00 when the computation fails): samples at 200 m or more never
\* influence its result.
C22_InlandWindowIs200m ==
    LET inland == Cardinality({i \in DOMAIN raster.segments : raster.segments[i] < 200})
        r == calc_slope(Slice(raster.elevations, 1, inland),
                        Slice(raster.segments, 1, inland))
    IN raster.op = "calc_slope_200m_inland"
       => raster.slope_200m_inland = IF r.exc = NoExc THEN r.max_slope ELSE Frac(0, 1)

----------------------------------------------------------------------------
(* Properties of the geological layout *)

C24_CoralsGiveHardRock ==
    (lookups.op = "get_info_geological_layout" /\ method_exc = NoExc /\ chw.corals)
    => /\ special_case_flat_hard_rock(chw) # special_case_sloping_hard_rock(chw)
       /\ chw.geological_layout \in
            {RiverMouth(chw.variant), "Coral island", "Flat hard rock", "Sloping hard rock"}
       /\ chw.geological_layout \notin
            {"Barrier", "Delta/ low estuary island", "Sediment plain", "Sloping soft rock"}

C24_CoralsAtTheCutOff ==
    /\ lookups.op = "get_info_geological_layout"
    /\ method_exc = NoExc
    /\ chw.corals
    /\ chw.slope = SlopeHr(chw.variant)
    /\ chw.geology_material = "unconsolidated"
    /\ lookups.barriers_sandspits
    /\ chw.geological_layout = "Sloping hard rock"

\* C25: when the geology lookup fails or returns no value, geology is None
\* and geology_material is "consolidated", so after
\* get_info_geological_layout the layout is never "Barrier", "Delta/ low
\* estuary island", "Sediment plain" or "Sloping soft rock", whatever the
\* barrier and estuary intersections return.
C25_NoGeologyIsConsolidated ==
    /\ (lookups.op = "__init__" /\ method_exc = NoExc /\ lookups.geology \in {"Fail", "NULL"})
        => chw.geology = PyNone
    /\ chw.geology = PyNone
        => /\ chw.geology_material = "consolidated"
           /\ chw.geological_layout \notin
                {"Barrier", "Delta/ low estuary island", "Sediment plain", "Sloping soft rock"}

C25_NoGeologyOnABarrier ==
    /\ lookups.op = "get_info_geological_layout"
    /\ method_exc = NoExc
    /\ chw.geology = PyNone
    /\ chw.geology_material = "consolidated"
    /\ ~chw.corals
    /\ lookups.barriers_sandspits
    /\ lookups.estuaries_wkt
    /\ chw.slope = 0
    /\ chw.geological_layout = "Flat hard rock"

\* C26: in the production classifier, when elevation retrieval or the slope
\* computation failed the slope is 0.00, so stage 1 never yields "Sloping
\* soft rock" or "Sloping hard rock" and stage 4 never reaches the vegetation
\* branch: get_vegetation is never invoked on an instance without an
\* elevation profile.
C26_NoVegetationWithoutProfile ==
    handler = "WpsChw20"
    => /\ (lookups.op = "__init__" /\ method_exc = NoExc /\ lookups.dem # "ok")
            => /\ chw.slope = 0
               /\ lookups.dem = "fetch_fail" => chw.elevations = Unset
       /\ chw.elevations = Unset => chw.slope = 0
       /\ chw.slope = 0
            => chw.geological_layout \notin {"Sloping soft rock", "Sloping hard rock"}
       /\ (lookups.op = "get_info_flora_fauna" /\ chw.elevations = Unset)
            => /\ method_exc # AttributeErrorMsg
               /\ chw.geological_layout # "Sloping soft rock"
               /\ chw.flora_fauna \notin {"Vegetated", "Not vegetated"}

C26_FloraFaunaWithoutProfile ==
    /\ handler = "WpsChw20"
    /\ lookups.op = "get_info_flora_fauna"
    /\ method_exc = NoExc
    /\ chw.elevations = Unset
    /\ chw.geology_material = "unconsolidated"
    /\ chw.geological_layout = "Sediment plain"

----------------------------------------------------------------------------
(* Properties of the later stages *)

\* C27: get_info_wave_exposure never escalates: with exposed above
\* moderately exposed above protected, the final wave_exposure is never more
\* exposed than the base value of the lookup (or the failure default), and a
\* base value of "protected" is never changed, for every pair of 10 km and
\* 100 km candidate sets.
C27_WaveExposureNeverEscalates ==
    LET base == IF lookups.wave = "Fail" THEN "moderately exposed" ELSE lookups.wave
        rank(e) == CASE e = "exposed" -> 3
                     [] e = "moderately exposed" -> 2
                     [] e = "protected" -> 1
                     [] OTHER -> 4
    IN (lookups.op = "get_info_wave_exposure" /\ method_exc = NoExc)
       => /\ rank(chw.wave_exposure) <= rank(base)
          /\ base = "protected" => chw.wave_exposure = "protected"

C27_ProtectedWithManyCoastlines ==
    /\ lookups.op = "get_info_wave_exposure"
    /\ method_exc = NoExc
    /\ lookups.wave = "protected"
    /\ Cardinality(lookups.closest_100km \cup {lookups.coastline_id}) > 1
    /\ Cardinality(lookups.closest_10km \cup {lookups.coastline_id}) > 1
    /\ chw.wave_exposure = "protected"

\* C28: on a fresh instance, after stage 1 and then stage 5, sediment_balance
\* is "Beach" or "No Beach" iff geological_layout is "Flat hard rock" or
\* "Sloping hard rock"; for every other layout it is "Surplus" or
\* "Balance/Deficit".
C28_BeachOnlyOnHardRock ==
    (lookups.op = "get_info_sediment_balance" /\ method_exc = NoExc)
    => /\ chw.sediment_balance \in {"Beach", "No Beach"}
            <=> chw.geological_layout \in {"Flat hard rock", "Sloping hard rock"}
       /\ chw.geological_layout \notin {"Flat hard rock", "Sloping hard rock"}
            => chw.sediment_balance \in {"Surplus", "Balance/Deficit"}

C28_SurplusOnCoralIsland ==
    /\ lookups.op = "get_info_sediment_balance"
    /\ method_exc = NoExc
    /\ "get_info_geological_layout" \in {calls[i] : i \in DOMAIN calls}
    /\ chw.geological_layout = "Coral island"
    /\ chw.sediment_balance = "Surplus"

\* C29: provide_measures is all-or-nothing: after it returns, either all five
\* measure lists come from the measures table for the current code, or all
\* five are ["No measures were found"]; when the table has rows for only some
\* of the five hazard categories all five are the default.
C29_MeasuresAllOrNothing ==
    LET lists == [h \in Hazards |->
                    CASE h = "Ecosystem disruption" -> chw.ecosystem_disruption_measures
                      [] h = "Gradual inundation" -> chw.gradual_inundation_measures
                      [] h = "Salt water intrusion" -> chw.salt_water_intrusion_measures
                      [] h = "Erosion" -> chw.erosion_measures
                      [] h = "Flooding" -> chw.flooding_measures]
        rows == IF lookups.measures = "rows" /\ chw.code \in TableCodes
                THEN lookups.hazards ELSE {}
    IN (lookups.op = "provide_measures" /\ method_exc = NoExc)
       => /\ \/ \A h \in Hazards : lists[h] = MeasuresOf(chw.code, h)
             \/ \A h \in Hazards : lists[h] = NoMeasures
          /\ rows = Hazards => \A h \in Hazards : lists[h] = MeasuresOf(chw.code, h)
          /\ rows # Hazards => \A h \in Hazards : lists[h] = NoMeasures

C29_RowsForFourHazards ==
    /\ lookups.op = "provide_measures"
    /\ method_exc = NoExc
    /\ lookups.measures = "rows"
    /\ chw.code \in TableCodes
    /\ lookups.hazards = Hazards \ {"Flooding"}
    /\ chw.ecosystem_disruption_measures = NoMeasures
    /\ chw.flooding_measures = NoMeasures

\* C30: each stage method writes only its own axis, and
\* hazards_classification and provide_measures write none of the six axes:
\* an axis changes only in a step that calls the method of that axis.
\* Consequently stages 4 and 5 give the same result in either order: once
\* stage 4 has returned, stage 5 before it with any results of its lookups,
\* then stage 4 on that object, gives the object of stage 4 then stage 5.
C30_StagesWriteTheirOwnAxis ==
    /\ [][LET axes == [geological_layout |-> "get_info_geological_layout",
                       wave_exposure |-> "get_info_wave_exposure",
                       tidal_range |-> "get_info_tidal_range",
                       flora_fauna |-> "get_info_flora_fauna",
                       sediment_balance |-> "get_info_sediment_balance",
                       storm_climate |-> "get_info_storm_climate"]
          IN \A axis \in DOMAIN axes :
                chw'[axis] # chw[axis]
                => /\ Len(calls') = Len(calls) + 1
                   /\ calls'[Len(calls')] = axes[axis]]_vars
    /\ []((lookups.op = "get_info_flora_fauna" /\ method_exc = NoExc)
          => LET before == [chw EXCEPT !.flora_fauna = NewCHW(chw.variant).flora_fauna]
             IN /\ SedimentLookups(before) = SedimentLookups(chw)
                /\ \A w \in SedimentLookups(chw) :
                      LET first == get_info_sediment_balance(before, w)
                      IN /\ first.exc = NoExc
                         /\ get_info_flora_fauna(first.obj, lookups)
                              = get_info_sediment_balance(chw, w))

C30_FloraFaunaThenSedimentBalance ==
    /\ lookups.op = "get_info_sediment_balance"
    /\ method_exc = NoExc
    /\ chw.geological_layout = "Flat hard rock"
    /\ chw.flora_fauna = "Corals"
    /\ chw.sediment_balance = "Beach"
    /\ chw.wave_exposure = "exposed"
    /\ chw.tidal_range = "meso"

====
